---- MODULE Spec2Model ----
(***************************************************************************)
(* chess-api: the session and broadcast hub of main.go.                    *)
(*                                                                         *)
(* The repository holds two relay variants of the same program:            *)
(*   "broadcast" : src/main.go lines 1-753   (HandleMove writes to every   *)
(*                 entry of connectedClients)                              *)
(*   "opponent"  : src/main.go lines 755-1225 (HandleMove writes to the    *)
(*                 session's other participant only)                       *)
(* A behaviour of the model runs one of the two; `variant` is fixed by     *)
(* Init.                                                                   *)
(*                                                                         *)
(* Workers are the goroutines gin starts: one per websocket connection     *)
(* (WsHandler) and one for a POST /game request.  The code takes no lock,  *)
(* so the steps of different workers interleave freely.  A step is one     *)
(* statement-level access of the shared state; a call into the chess       *)
(* library (MoveStr, Move, ValidMoves, MarshalText) is taken as one step.  *)
(***************************************************************************)
EXTENDS Integers, Sequences, FiniteSets, TLC

\* ----------------------------------------------------------------- bounds
NumConns == 2
MaxGames == 1
MaxPly == 2

Conns == 1..NumConns
HttpWorker == 0
Workers == Conns \cup {HttpWorker}
GameIds == 1..MaxGames

\* Identities a websocket client may present in ?id= (main, line 664).  The
\* first connection presents "A"; the others "A" again (a second connection
\* under one identity) or "B".  "B" is a participant of a session of A
\* against B and an outsider to a session of A against "ai".
ClientIds(c) == IF c = 1 THEN {"A"} ELSE {"A", "B"}

Variants == {"broadcast", "opponent"}

\* ------------------------------------------------- rules engine (library)
\* The chess library is an external collaborator.  It is modelled by a small
\* game with the same interface: a game is its move list and its outcome;
\* whose turn it is follows from the number of moves played.
\*   wq  a quiet move of White          bq  a quiet move of Black
\*   wm  White mates
\*   wd  White takes Black's last piece: insufficient material, which the
\*       library scores as an automatic draw
NoOutcome == "*"
WhiteWon == "1-0"
BlackWon == "0-1"
Draw == "1/2-1/2"

WhiteMoves == {"wq", "wm", "wd"}
BlackMoves == {"bq"}
AllMoves == WhiteMoves \cup BlackMoves
QuietMoves == {"wq", "bq"}

NewGame == [moves |-> <<>>, outcome |-> NoOutcome]

Turn(g) == IF Len(g.moves) % 2 = 0 THEN "w" ELSE "b"

Checkmated(ms) == Len(ms) > 0 /\ ms[Len(ms)] = "wm"

InsufficientMaterial(ms) == \E i \in 1..Len(ms) : ms[i] = "wd"

\* Position.ValidMoves: generated from the board alone.  A mated side has no
\* move; with insufficient material only quiet moves are left, and they stay
\* legal although the game's outcome is a draw.
ValidMoves(g) ==
    IF Checkmated(g.moves) THEN {}
    ELSE LET side == IF Turn(g) = "w" THEN WhiteMoves ELSE BlackMoves
         IN  IF InsufficientMaterial(g.moves) THEN side \cap QuietMoves ELSE side

\* Game.updatePosition: mate first, a set outcome is kept, then the
\* automatic draws (skipped while a PGN is replayed).
UpdateOutcome(g, ms, automaticDraws) ==
    IF Checkmated(ms) THEN WhiteWon
    ELSE IF g.outcome # NoOutcome THEN g.outcome
    ELSE IF automaticDraws /\ InsufficientMaterial(ms) THEN Draw
    ELSE NoOutcome

\* Game.Move(m) for a move of ValidMoves(g).
ApplyMove(g, m, automaticDraws) ==
    LET ms == Append(g.moves, m)
    IN  [moves |-> ms, outcome |-> UpdateOutcome(g, ms, automaticDraws)]

Outcome(g) == g.outcome

\* Game.MarshalText: the PGN move text, "1.wq bq 2.wm" and the result.  A
\* White move carries its move number, a Black move none (num = 0).
MarshalText(g) ==
    [movetext |-> [i \in 1..Len(g.moves) |->
                      [num |-> IF i % 2 = 1 THEN (i + 1) \div 2 ELSE 0,
                       txt |-> g.moves[i]]],
     result |-> g.outcome]

\* Game.UnmarshalText: a new game, every token decoded at the position
\* reached and played with Move; the result is read from the text.  ok is
\* FALSE when a token is no legal move where it stands.
RECURSIVE Replay(_, _, _)
Replay(g, tokens, i) ==
    IF i > Len(tokens) THEN [ok |-> TRUE, game |-> g]
    ELSE IF tokens[i].txt \notin ValidMoves(g) THEN [ok |-> FALSE, game |-> g]
    ELSE Replay(ApplyMove(g, tokens[i].txt, FALSE), tokens, i + 1)

UnmarshalText(pgn) ==
    LET r == Replay(NewGame, pgn.movetext, 1)
    IN  [ok |-> r.ok, game |-> [r.game EXCEPT !.outcome = pgn.result]]

\* ------------------------------------------------------------------ state
VARIABLES
    variant,    \* which of the two programs runs
    phase,      \* "up": main is serving; "down": the process has died
    games,      \* var games: session id -> Game (line 653 / 1125)
    disk,       \* the file games.json
    connectedClients,   \* var connectedClients: sequence of Client (line 654)
    pc,         \* each worker's place in its handler
    id,         \* each connection's Client.ID
    conn,       \* each connection's transport: none, open, peerclosed, closed
    cur,        \* each worker's local variables
    ev          \* history: what the last step did and wrote

vars == <<variant, phase, games, disk, connectedClients, pc, id, conn,
          cur, ev>>

NoLocals == [game |-> 0, move |-> "", data |-> <<>>, ret |-> "", opponent |-> "",
             snap |-> <<>>, idx |-> 0, msgs |-> <<>>, committed |-> FALSE]

Ev(op, by, game, res, out) ==
    [op |-> op, by |-> by, game |-> game, res |-> res, out |-> out,
     auth |-> "", pre |-> "", legal |-> FALSE]

NoFile == [kind |-> "missing", data |-> <<>>]
Malformed == [kind |-> "partial", data |-> <<>>]

\* ------------------------------------------------------------ persistence
\* SaveGames, lines 597-617: every session's PGN and participants.
StoredOf(gs) ==
    [g \in DOMAIN gs |-> [pgn |-> MarshalText(gs[g].Game),
                          whitePlayerId |-> gs[g].WhitePlayerId,
                          blackPlayerId |-> gs[g].BlackPlayerId]]

\* LoadGames, lines 622-651: the stores it can leave in `games`, given the
\* file and the store before the call.  A missing or undecodable file returns
\* before games is replaced.  A stored game whose PGN does not decode returns
\* in the middle of the loop over the map, whose order is not fixed: the
\* store then holds any set of the decodable sessions.
LoadedGame(sg) ==
    [WhitePlayerId |-> sg.whitePlayerId,
     BlackPlayerId |-> sg.blackPlayerId,
     Game |-> UnmarshalText(sg.pgn).game]

LoadGames(file, before) ==
    IF file.kind # "full" THEN {before}
    ELSE LET good == {g \in DOMAIN file.data : UnmarshalText(file.data[g].pgn).ok}
         IN  IF good = DOMAIN file.data
             THEN {[g \in good |-> LoadedGame(file.data[g])]}
             ELSE {[g \in S |-> LoadedGame(file.data[g])] : S \in SUBSET good}

LoadGamesErr(file) ==
    \/ file.kind # "full"
    \/ \E g \in DOMAIN file.data : ~UnmarshalText(file.data[g].pgn).ok

Init ==
    /\ variant \in Variants
    /\ phase = "up"
    /\ games = <<>>
    /\ disk = NoFile
    /\ connectedClients = <<>>
    /\ pc = [w \in Workers |-> IF w = HttpWorker THEN "idle" ELSE "free"]
    /\ id = [c \in Conns |-> ""]
    /\ conn = [c \in Conns |-> "none"]
    /\ cur = [w \in Workers |-> NoLocals]
    /\ ev = Ev("Start", HttpWorker, 0, "", <<>>)

\* ----------------------------------------------------- POST /game handler
CreateRequests ==
    {[player1 |-> "A", player2 |-> "B", preferredColor |-> c] : c \in {"w", ""}}
    \cup {[player1 |-> "A", player2 |-> "ai", preferredColor |-> "w"]}

\* rand.IntN(1-0) + 0, line 728: IntN(n) draws from [0, n).
RandomNumbers == 0..((1 - 0) - 1)

\* lines 715-736
NewSession(req, randomNumber) ==
    IF req.preferredColor = "w"
    THEN [WhitePlayerId |-> req.player1, BlackPlayerId |-> req.player2, Game |-> NewGame]
    ELSE IF req.preferredColor = "b"
    THEN [WhitePlayerId |-> req.player2, BlackPlayerId |-> req.player1, Game |-> NewGame]
    ELSE IF randomNumber = 0
    THEN [WhitePlayerId |-> req.player1, BlackPlayerId |-> req.player2, Game |-> NewGame]
    ELSE [WhitePlayerId |-> req.player2, BlackPlayerId |-> req.player1, Game |-> NewGame]

\* uuid.New(): an id no session has.
FreshId == CHOOSE g \in GameIds \ DOMAIN games :
               \A h \in GameIds \ DOMAIN games : g <= h

\* lines 697-738: the session is put in the store, then SaveGames is called.
CreateGame(req) ==
    /\ phase = "up"
    /\ pc[HttpWorker] = "idle"
    /\ GameIds \ DOMAIN games # {}
    /\ \E r \in RandomNumbers :
         games' = [g \in DOMAIN games \cup {FreshId} |->
                      IF g = FreshId THEN NewSession(req, r) ELSE games[g]]
    /\ pc' = [pc EXCEPT ![HttpWorker] = "sv_snap"]
    /\ cur' = [cur EXCEPT ![HttpWorker] = [NoLocals EXCEPT !.game = FreshId, !.ret = "create"]]
    /\ ev' = Ev("CreateGame", HttpWorker, FreshId, req.preferredColor, <<>>)
    /\ UNCHANGED <<variant, phase, disk, connectedClients, id, conn>>

\* --------------------------------------------------------------- SaveGames
\* Where a worker goes, and with which locals, when SaveGames returns.
\* POST /game answers 200 or 500 and ends (lines 740-746).  HandleMove
\* returns the error (lines 361-364 / 889-892) or goes on to notify.
SaveReturnIgnoringError(w, ok) ==
    IF cur[w].ret = "create" THEN [next |-> "idle", locals |-> NoLocals]
    ELSE [next |-> "mv_send", locals |-> [cur[w] EXCEPT !.data = <<>>, !.committed = ok]]

SaveReturn(w, ok) ==
    IF cur[w].ret = "create" THEN [next |-> "idle", locals |-> NoLocals]
    ELSE IF ok THEN [next |-> "mv_send",
                     locals |-> [cur[w] EXCEPT !.data = <<>>, !.committed = TRUE]]
    ELSE [next |-> "read", locals |-> NoLocals]

\* lines 597-619: the loop over games and json.Marshal build the bytes of
\* the whole store; os.WriteFile then opens games.json with O_TRUNC, which
\* empties it.
SaveBegin(w) ==
    /\ phase = "up"
    /\ pc[w] = "sv_snap"
    /\ cur' = [cur EXCEPT ![w].data = StoredOf(games)]
    /\ disk' = Malformed
    /\ pc' = [pc EXCEPT ![w] = "sv_write"]
    /\ ev' = Ev("SaveBegin", w, 0, "", <<>>)
    /\ UNCHANGED <<variant, phase, games, connectedClients, id, conn>>

\* os.WriteFile cannot open the file: nothing is written, SaveGames returns
\* the error.
SaveBeginFails(w) ==
    /\ phase = "up"
    /\ pc[w] = "sv_snap"
    /\ pc' = [pc EXCEPT ![w] = SaveReturn(w, FALSE).next]
    /\ cur' = [cur EXCEPT ![w] = SaveReturn(w, FALSE).locals]
    /\ ev' = Ev("SaveGames", w, cur[w].game, "error", <<>>)
    /\ UNCHANGED <<variant, phase, games, disk, connectedClients, id, conn>>

\* os.WriteFile writes the bytes from offset 0 and closes.  When another
\* worker's WriteFile has written since this one opened the file, the bytes
\* overlay the other's: the file is this snapshot or not decodable.
WriteData(w) ==
    /\ phase = "up"
    /\ pc[w] = "sv_write"
    /\ disk' \in {[kind |-> "full", data |-> cur[w].data]}
                 \cup (IF disk.kind = "full" THEN {Malformed} ELSE {})
    /\ pc' = [pc EXCEPT ![w] = SaveReturn(w, TRUE).next]
    /\ cur' = [cur EXCEPT ![w] = SaveReturn(w, TRUE).locals]
    /\ ev' = Ev("SaveGames", w, cur[w].game, "ok", <<>>)
    /\ UNCHANGED <<variant, phase, games, connectedClients, id, conn>>

\* The write fails (disk full, I/O error): the file stays cut, SaveGames
\* returns the error.
WriteDataFails(w) ==
    /\ phase = "up"
    /\ pc[w] = "sv_write"
    /\ disk' = Malformed
    /\ pc' = [pc EXCEPT ![w] = SaveReturn(w, FALSE).next]
    /\ cur' = [cur EXCEPT ![w] = SaveReturn(w, FALSE).locals]
    /\ ev' = Ev("SaveGames", w, cur[w].game, "error", <<>>)
    /\ UNCHANGED <<variant, phase, games, connectedClients, id, conn>>

\* ------------------------------------------------------ process lifecycle
\* The process dies (kill, power loss, a runtime fatal error): memory and
\* connections are gone, the file is what it was at that moment.
Crash ==
    /\ phase = "up"
    /\ phase' = "down"
    /\ games' = <<>>
    /\ connectedClients' = <<>>
    /\ pc' = [w \in Workers |-> IF w = HttpWorker THEN "idle" ELSE "free"]
    /\ id' = [c \in Conns |-> ""]
    /\ conn' = [c \in Conns |-> "none"]
    /\ cur' = [w \in Workers |-> NoLocals]
    /\ ev' = Ev("Crash", HttpWorker, 0, "", <<>>)
    /\ UNCHANGED <<variant, disk>>

\* main, lines 656-661: LoadGames; its error is printed and main goes on to
\* serve.
Restart ==
    /\ phase = "down"
    /\ phase' = "up"
    /\ games' \in LoadGames(disk, games)
    /\ ev' = Ev("LoadGames", HttpWorker, 0, IF LoadGamesErr(disk) THEN "error" ELSE "ok", <<>>)
    /\ UNCHANGED <<variant, disk, connectedClients, pc, id, conn, cur>>

\* --------------------------------------------------------------- messages
Msg(type, gameId, body) == [type |-> type, gameId |-> gameId, body |-> body]

To(c, m) == [to |-> c, msg |-> m]

\* conn.WriteMessage succeeds on an open transport and returns an error on a
\* broken or closed one.
Writable(c) == conn[c] = "open"

\* lines 530-548
HelloMessage(clientId) == Msg("hello", 0, clientId)

\* GenerateMoveAnswerMessage: the broadcast variant sends the position (FEN,
\* lines 317-339), the opponent variant the submitted move (lines 831-853).
GenerateMoveAnswerMessage(game, gameId, move) ==
    IF variant = "broadcast" THEN Msg("move", gameId, game.Game.moves)
    ELSE Msg("move", gameId, move)

\* A legal-move view that does not look at who asks.
PossibleMovesForAnyone(game, gameId, clientId) ==
    Msg("possibleMoves", gameId, ValidMoves(game.Game))

\* GeneratePossibleMovesMessage, lines 238-315.
GeneratePossibleMovesMessage(game, gameId, clientId) ==
    IF Turn(game.Game) = "w" /\ game.WhitePlayerId # clientId
    THEN Msg("possibleMoves", gameId, {})
    ELSE IF Turn(game.Game) = "b" /\ game.BlackPlayerId # clientId
    THEN Msg("possibleMoves", gameId, {})
    ELSE Msg("possibleMoves", gameId, ValidMoves(game.Game))

\* GenerateOutcomeMessage, lines 191-236.
OutcomeText(g) ==
    LET o == IF Outcome(g) = WhiteWon THEN "white won"
             ELSE IF Outcome(g) = BlackWon THEN "black won"
             ELSE IF Outcome(g) = Draw THEN "draw"
             ELSE ""
    IN  IF Checkmated(g.moves)
        THEN (IF o = "" THEN "checkmate" ELSE o \o " checkmate")
        ELSE o

GenerateOutcomeMessage(game, gameId) ==
    Msg("outcome", gameId,
        [outcome |-> OutcomeText(game.Game),
         winner |-> IF Outcome(game.Game) = WhiteWon THEN "w"
                    ELSE IF Outcome(game.Game) = BlackWon THEN "b" ELSE ""])

\* GenerateCapturedPiecesMessage, lines 94-189: the starting complement minus
\* what stands on the board.  Only "wd" takes a piece, a black one.
GenerateCapturedPiecesMessage(game, gameId) ==
    Msg("capturedPieces", gameId,
        [white |-> <<>>,
         black |-> IF InsufficientMaterial(game.Game.moves) THEN <<"p">> ELSE <<>>])

\* GenerateAgainstMessage, lines 425-457: ok is FALSE for "Player not in game".
GenerateAgainstMessage(game, clientId) ==
    IF game.WhitePlayerId = clientId
    THEN [ok |-> TRUE, msg |-> Msg("against", 0, <<game.BlackPlayerId, "b">>)]
    ELSE IF game.BlackPlayerId = clientId
    THEN [ok |-> TRUE, msg |-> Msg("against", 0, <<game.WhitePlayerId, "w">>)]
    ELSE [ok |-> FALSE, msg |-> Msg("against", 0, <<"", "">>)]

\* ------------------------------------------------------------- WsHandler
\* lines 517-528: the transport is upgraded and the client appended to the
\* registry.
Connect(c, clientId) ==
    /\ phase = "up"
    /\ pc[c] = "free"
    /\ id' = [id EXCEPT ![c] = clientId]
    /\ conn' = [conn EXCEPT ![c] = "open"]
    /\ connectedClients' = Append(connectedClients, [ID |-> clientId, Conn |-> c])
    /\ pc' = [pc EXCEPT ![c] = "hello"]
    /\ ev' = Ev("Connect", c, 0, "", <<>>)
    /\ UNCHANGED <<variant, phase, games, disk, cur>>

\* lines 530-552: hello is written; a write error returns before the
\* deferred cleanup of lines 554-562 is registered.
Hello(c) ==
    /\ phase = "up"
    /\ pc[c] = "hello"
    /\ pc' = [pc EXCEPT ![c] = IF Writable(c) THEN "read" ELSE "done"]
    /\ ev' = Ev("Hello", c, 0, IF Writable(c) THEN "ok" ELSE "error",
                IF Writable(c) THEN <<To(c, HelloMessage(id[c]))>> ELSE <<>>)
    /\ UNCHANGED <<variant, phase, games, disk, connectedClients, id, conn,
                   cur>>

\* The peer closes or the network breaks.
PeerClose(c) ==
    /\ phase = "up"
    /\ conn[c] = "open"
    /\ pc[c] \in {"hello", "read"}
    /\ conn' = [conn EXCEPT ![c] = "peerclosed"]
    /\ ev' = Ev("PeerClose", c, 0, "", <<>>)
    /\ UNCHANGED <<variant, phase, games, disk, connectedClients, pc, id,
                   cur>>

\* Where the read loop goes on a failed ReadMessage or a failed decode of the
\* envelope: `continue` in the broadcast variant (lines 566-574), `break` out
\* of the loop in the opponent variant (lines 1036-1044).
OnLoopError == IF variant = "broadcast" THEN "read" ELSE "teardown"

\* lines 565-568 / 1035-1038: ReadMessage returns an error.
ReadError(c) ==
    /\ phase = "up"
    /\ pc[c] = "read"
    /\ conn[c] = "peerclosed"
    /\ pc' = [pc EXCEPT ![c] = OnLoopError]
    /\ ev' = Ev("ReadError", c, 0, OnLoopError, <<>>)
    /\ UNCHANGED <<variant, phase, games, disk, connectedClients, id, conn,
                   cur>>

\* Broadcast variant: the loop reads again after every error (line 567).  The
\* websocket library counts the reads of a failed connection and panics on
\* the 1000th; the panic runs the deferred function of lines 554-562 and is
\* recovered by gin's Recovery middleware (gin.Default, line 657).
ReadPanic(c) ==
    /\ phase = "up"
    /\ variant = "broadcast"
    /\ pc[c] = "read"
    /\ conn[c] = "peerclosed"
    /\ pc' = [pc EXCEPT ![c] = "teardown"]
    /\ ev' = Ev("ReadPanic", c, 0, "teardown", <<>>)
    /\ UNCHANGED <<variant, phase, games, disk, connectedClients, id, conn,
                   cur>>

\* lines 570-574 / 1040-1044: the frame is not a JSON envelope.
RecvUndecodable(c) ==
    /\ phase = "up"
    /\ pc[c] = "read"
    /\ conn[c] = "open"
    /\ pc' = [pc EXCEPT ![c] = OnLoopError]
    /\ ev' = Ev("RecvUndecodable", c, 0, OnLoopError, <<>>)
    /\ UNCHANGED <<variant, phase, games, disk, connectedClients, id, conn,
                   cur>>

\* lines 576-592 / 1046-1062: "leave" and an unknown type both `break` out of
\* the switch, and the loop reads on.
RecvIgnored(c, type) ==
    /\ phase = "up"
    /\ pc[c] = "read"
    /\ conn[c] = "open"
    /\ ev' = Ev("RecvIgnored", c, 0, type, <<>>)
    /\ UNCHANGED <<variant, phase, games, disk, connectedClients, pc, id,
                   conn, cur>>

\* deferred function, lines 554-562 / 1024-1032: the first registry entry
\* with this client's ID is cut out, then the transport is closed.
RECURSIVE IndexOfId(_, _, _)
IndexOfId(cs, clientId, i) ==
    IF i > Len(cs) THEN 0
    ELSE IF cs[i].ID = clientId THEN i
    ELSE IndexOfId(cs, clientId, i + 1)

RemoveAt(cs, i) == SubSeq(cs, 1, i - 1) \o SubSeq(cs, i + 1, Len(cs))

RemoveClient(cs, clientId) ==
    LET i == IndexOfId(cs, clientId, 1)
    IN  IF i = 0 THEN cs ELSE RemoveAt(cs, i)

Teardown(c) ==
    /\ phase = "up"
    /\ pc[c] = "teardown"
    /\ connectedClients' = RemoveClient(connectedClients, id[c])
    /\ conn' = [conn EXCEPT ![c] = "closed"]
    /\ pc' = [pc EXCEPT ![c] = "done"]
    /\ ev' = Ev("Teardown", c, 0,
                IF conn[c] = "peerclosed" THEN "read failed" ELSE "decode failed", <<>>)
    /\ UNCHANGED <<variant, phase, games, disk, id, cur>>

\* -------------------------------------------------------------- HandleJoin
\* Payloads of join and move envelopes: valid = FALSE is a payload that is
\* not JSON; gameId 0 names no session; "zz" is a move no position allows.
BadPayload == [valid |-> FALSE, gameId |-> 0, move |-> ""]
JoinPayloads == {BadPayload}
                \cup {[valid |-> TRUE, gameId |-> g, move |-> ""] : g \in GameIds \cup {0}}
MovePayloads == {BadPayload}
                \cup {[valid |-> TRUE, gameId |-> 0, move |-> "wq"]}
                \cup {[valid |-> TRUE, gameId |-> g, move |-> m] :
                         g \in GameIds, m \in AllMoves \cup {"zz"}}

\* The envelopes HandleJoin writes to the requester: lines 474-512 in the
\* broadcast variant, lines 974-982 in the opponent variant.
JoinAnswers(game, gameId, clientId) ==
    IF variant = "broadcast"
    THEN <<GenerateAgainstMessage(game, clientId).msg,
           GeneratePossibleMovesMessage(game, gameId, clientId),
           GenerateOutcomeMessage(game, gameId),
           GenerateCapturedPiecesMessage(game, gameId)>>
    ELSE <<GenerateAgainstMessage(game, clientId).msg>>

JoinResult(c, p) ==
    IF ~p.valid THEN "decode error"
    ELSE IF p.gameId \notin DOMAIN games THEN "Game not found"
    ELSE IF ~GenerateAgainstMessage(games[p.gameId], id[c]).ok THEN "Player not in game"
    ELSE "ok"

HandleJoin(c, p) ==
    /\ phase = "up"
    /\ pc[c] = "read"
    /\ conn[c] = "open"
    /\ ev' = Ev("HandleJoin", c, IF JoinResult(c, p) = "ok" THEN p.gameId ELSE 0,
                JoinResult(c, p),
                IF JoinResult(c, p) = "ok"
                THEN LET ms == JoinAnswers(games[p.gameId], p.gameId, id[c])
                     IN  [i \in 1..Len(ms) |-> To(c, ms[i])]
                ELSE <<>>)
    /\ UNCHANGED <<variant, phase, games, disk, connectedClients, pc, id,
                   conn, cur>>

\* -------------------------------------------------------------- HandleMove
\* A HandleMove that plays whatever it is sent.
MoveAcceptedUnchecked(game, clientId, move) == TRUE

\* Whether the submitted move is taken: game.Game.MoveStr(move.Move) returns
\* no error (line 356), or a move of ValidMoves() has that String() (lines
\* 870-887).  The client's identity is not consulted.
MoveAccepted(game, clientId, move) == move \in ValidMoves(game.Game)

\* For the claims: how the submitting identity stands to the session.
AuthOf(game, clientId) ==
    IF \/ Turn(game.Game) = "w" /\ game.WhitePlayerId = clientId
       \/ Turn(game.Game) = "b" /\ game.BlackPlayerId = clientId
    THEN "onturn"
    ELSE IF clientId \in {game.WhitePlayerId, game.BlackPlayerId} THEN "offturn"
    ELSE "outsider"

EvMove(op, by, game, res, auth, pre, legal) ==
    [op |-> op, by |-> by, game |-> game, res |-> res, out |-> <<>>,
     auth |-> auth, pre |-> pre, legal |-> legal]

\* For the claims: whether a submitted move is in the legal-move set of the
\* session it names, as the rules engine gives it at that moment.
IsLegal(p) ==
    /\ p.valid
    /\ p.gameId \in DOMAIN games
    /\ p.move \in ValidMoves(games[p.gameId].Game)

MoveResult(c, p) ==
    IF ~p.valid THEN "decode error"
    ELSE IF p.gameId \notin DOMAIN games THEN "Game not found"
    ELSE IF ~MoveAccepted(games[p.gameId], id[c], p.move) THEN "Invalid move"
    ELSE "ok"

\* A lookup of the session that plays the move wherever it is legal.
PlayMoveEverywhere(gs, gameId, move) ==
    [g \in DOMAIN gs |->
        IF move \in ValidMoves(gs[g].Game)
        THEN [gs[g] EXCEPT !.Game = ApplyMove(@, move, TRUE)]
        ELSE gs[g]]

\* game := games[move.GameID] and the call that plays the move on it: the
\* store afterwards (lines 351-356 / 865-875).
PlayMove(gs, gameId, move) ==
    [gs EXCEPT ![gameId].Game = ApplyMove(@, move, TRUE)]

\* HandleMove up to the change of the position.  Broadcast variant, lines
\* 345-359: MoveStr validates and plays the move.  Opponent variant, lines
\* 859-874: the move is looked up in ValidMoves(); Move follows at line 875.
HandleMove(c, p) ==
    /\ phase = "up"
    /\ pc[c] = "read"
    /\ conn[c] = "open"
    /\ MoveResult(c, p) = "ok" => Len(games[p.gameId].Game.moves) < MaxPly
    /\ IF MoveResult(c, p) # "ok"
       THEN /\ ev' = EvMove("MoveRejected", c, 0, MoveResult(c, p), "", "", IsLegal(p))
            /\ UNCHANGED <<games, pc, cur>>
       ELSE IF variant = "broadcast"
       THEN /\ games' = PlayMove(games, p.gameId, p.move)
            /\ pc' = [pc EXCEPT ![c] = "sv_snap"]
            /\ cur' = [cur EXCEPT ![c] = [NoLocals EXCEPT !.game = p.gameId,
                                             !.move = p.move, !.ret = "move"]]
            /\ ev' = EvMove("MoveApplied", c, p.gameId, p.move,
                            AuthOf(games[p.gameId], id[c]),
                            Outcome(games[p.gameId].Game), IsLegal(p))
       ELSE /\ pc' = [pc EXCEPT ![c] = "mv_apply"]
            /\ cur' = [cur EXCEPT ![c] = [NoLocals EXCEPT !.game = p.gameId,
                                             !.move = p.move, !.ret = "move"]]
            /\ ev' = EvMove("MoveFound", c, p.gameId, p.move, "", "", IsLegal(p))
            /\ UNCHANGED games
    /\ UNCHANGED <<variant, phase, disk, connectedClients, id, conn>>

\* Opponent variant, lines 875-883: game.Game.Move(m) checks m against the
\* position as it is now and plays it, or returns an error.
MoveApply(c) ==
    /\ phase = "up"
    /\ pc[c] = "mv_apply"
    /\ LET game == games[cur[c].game]
           m == cur[c].move
       IN  /\ m \in ValidMoves(game.Game) => Len(game.Game.moves) < MaxPly
           /\ IF m \in ValidMoves(game.Game)
              THEN /\ games' = PlayMove(games, cur[c].game, m)
                   /\ pc' = [pc EXCEPT ![c] = "sv_snap"]
                   /\ ev' = EvMove("MoveApplied", c, cur[c].game, m,
                                   AuthOf(game, id[c]), Outcome(game.Game), TRUE)
                   /\ UNCHANGED cur
              ELSE /\ pc' = [pc EXCEPT ![c] = "read"]
                   /\ cur' = [cur EXCEPT ![c] = NoLocals]
                   /\ ev' = EvMove("MoveRejected", c, 0, "Invalid move", "", "", FALSE)
                   /\ UNCHANGED games
    /\ UNCHANGED <<variant, phase, disk, connectedClients, id, conn>>

\* Opponent variant, lines 894-899.
OpponentOf(game, clientId) ==
    IF game.WhitePlayerId = clientId THEN game.BlackPlayerId ELSE game.WhitePlayerId

\* HandleMove after SaveGames returned nil.
\* Broadcast variant: with an outcome, the position and the outcome go to the
\* mover (lines 366-388); without, three envelopes are built for the mover's
\* identity and the loop over connectedClients starts (lines 390-405).
\* Opponent variant: nothing for an empty or "ai" opponent, else the loop
\* over connectedClients starts (lines 894-906).
MoveSend(c) ==
    /\ phase = "up"
    /\ pc[c] = "mv_send"
    /\ LET gid == cur[c].game
           game == games[gid]
           answer == GenerateMoveAnswerMessage(game, gid, cur[c].move)
           final == variant = "broadcast" /\ Outcome(game.Game) # NoOutcome
           silent == variant = "opponent" /\ OpponentOf(game, id[c]) \in {"", "ai"}
       IN  IF final \/ silent \/ Len(connectedClients) = 0
           THEN /\ pc' = [pc EXCEPT ![c] = "read"]
                /\ cur' = [cur EXCEPT ![c] = NoLocals]
                /\ ev' = Ev("MoveSend", c, gid, IF final THEN "outcome" ELSE "none",
                            IF final /\ Writable(c)
                            THEN <<To(c, answer), To(c, GenerateOutcomeMessage(game, gid))>>
                            ELSE <<>>)
           ELSE /\ pc' = [pc EXCEPT ![c] = "bc_loop"]
                /\ cur' = [cur EXCEPT ![c].snap = connectedClients,
                                      ![c].idx = 1,
                                      ![c].opponent = IF variant = "opponent"
                                                      THEN OpponentOf(game, id[c]) ELSE "",
                                      ![c].msgs =
                                          IF variant = "broadcast"
                                          THEN <<answer,
                                                 GeneratePossibleMovesMessage(game, gid, id[c]),
                                                 GenerateCapturedPiecesMessage(game, gid)>>
                                          ELSE <<answer>>]
                /\ ev' = Ev("MoveSend", c, gid, "loop", <<>>)
    /\ UNCHANGED <<variant, phase, games, disk, connectedClients, id, conn>>

\* What the range loop can read at index i: the slice was taken when the
\* loop started; its slots are shared with the registry, which other workers
\* append to and cut from meanwhile without a lock.
SlotValues(c) ==
    {cur[c].snap[cur[c].idx]}
    \cup (IF cur[c].idx <= Len(connectedClients)
          THEN {connectedClients[cur[c].idx]} ELSE {})

\* One turn of the loop, lines 405-420 (every client gets the three
\* envelopes; a write error goes on to the next client) or lines 906-919
\* (the clients whose ID is the opponent get the move).
Broadcast(c) ==
    /\ phase = "up"
    /\ pc[c] = "bc_loop"
    /\ \E client \in SlotValues(c) :
         ev' = Ev("Broadcast", c, cur[c].game, "",
                  IF /\ Writable(client.Conn)
                     /\ variant = "opponent" => client.ID = cur[c].opponent
                  THEN [i \in 1..Len(cur[c].msgs) |-> To(client.Conn, cur[c].msgs[i])]
                  ELSE <<>>)
    /\ IF cur[c].idx = Len(cur[c].snap)
       THEN /\ pc' = [pc EXCEPT ![c] = "read"]
            /\ cur' = [cur EXCEPT ![c] = NoLocals]
       ELSE /\ cur' = [cur EXCEPT ![c].idx = @ + 1]
            /\ UNCHANGED pc
    /\ UNCHANGED <<variant, phase, games, disk, connectedClients, id, conn>>

\* ---------------------------------------------------------- specification
Next ==
    \/ \E req \in CreateRequests : CreateGame(req)
    \/ \E w \in Workers : SaveBegin(w)
    \/ \E w \in Workers : SaveBeginFails(w)
    \/ \E w \in Workers : WriteData(w)
    \/ \E w \in Workers : WriteDataFails(w)
    \/ Crash
    \/ Restart
    \/ \E c \in Conns : \E clientId \in ClientIds(c) : Connect(c, clientId)
    \/ \E c \in Conns : Hello(c)
    \/ \E c \in Conns : PeerClose(c)
    \/ \E c \in Conns : ReadError(c)
    \/ \E c \in Conns : ReadPanic(c)
    \/ \E c \in Conns : RecvUndecodable(c)
    \/ \E c \in Conns, type \in {"leave", "other"} : RecvIgnored(c, type)
    \/ \E c \in Conns : Teardown(c)
    \/ \E c \in Conns, p \in JoinPayloads : HandleJoin(c, p)
    \/ \E c \in Conns, p \in MovePayloads : HandleMove(c, p)
    \/ \E c \in Conns : MoveApply(c)
    \/ \E c \in Conns : MoveSend(c)
    \/ \E c \in Conns : Broadcast(c)

Spec == Init /\ [][Next]_vars

\* A worker is in the middle of an operation on the stores: between taking a
\* move or a new session and the end of its handler.
Busy(w) == pc[w] \in {"mv_apply", "sv_snap", "sv_write", "mv_send", "bc_loop"}

\* The handlers run one after the other: a worker takes a step only while no
\* other worker is in the middle of an operation.
Alone(w) == \A v \in Workers \ {w} : ~Busy(v)

NextSeq ==
    \/ \E req \in CreateRequests : Alone(HttpWorker) /\ CreateGame(req)
    \/ \E w \in Workers : Alone(w) /\ SaveBegin(w)
    \/ \E w \in Workers : Alone(w) /\ SaveBeginFails(w)
    \/ \E w \in Workers : Alone(w) /\ WriteData(w)
    \/ \E w \in Workers : Alone(w) /\ WriteDataFails(w)
    \/ Crash
    \/ Restart
    \/ \E c \in Conns : \E clientId \in ClientIds(c) : Alone(c) /\ Connect(c, clientId)
    \/ \E c \in Conns : Alone(c) /\ Hello(c)
    \/ \E c \in Conns : Alone(c) /\ PeerClose(c)
    \/ \E c \in Conns : Alone(c) /\ ReadError(c)
    \/ \E c \in Conns : Alone(c) /\ ReadPanic(c)
    \/ \E c \in Conns : Alone(c) /\ RecvUndecodable(c)
    \/ \E c \in Conns, type \in {"leave", "other"} : Alone(c) /\ RecvIgnored(c, type)
    \/ \E c \in Conns : Alone(c) /\ Teardown(c)
    \/ \E c \in Conns, p \in JoinPayloads : Alone(c) /\ HandleJoin(c, p)
    \/ \E c \in Conns, p \in MovePayloads : Alone(c) /\ HandleMove(c, p)
    \/ \E c \in Conns : Alone(c) /\ MoveApply(c)
    \/ \E c \in Conns : Alone(c) /\ MoveSend(c)
    \/ \E c \in Conns : Alone(c) /\ Broadcast(c)

SpecSeq == Init /\ [][NextSeq]_vars

\* The runs in which every SaveGames succeeds: os.WriteFile never returns an
\* error and the process does not die in the middle of a write.  The
\* handlers overlap as in Spec.
CrashOutsideWrite ==
    /\ \A w \in Workers : pc[w] # "sv_write"
    /\ Crash

NextNoFail ==
    \/ \E req \in CreateRequests : CreateGame(req)
    \/ \E w \in Workers : SaveBegin(w)
    \/ \E w \in Workers : WriteData(w)
    \/ CrashOutsideWrite
    \/ Restart
    \/ \E c \in Conns : \E clientId \in ClientIds(c) : Connect(c, clientId)
    \/ \E c \in Conns : Hello(c)
    \/ \E c \in Conns : PeerClose(c)
    \/ \E c \in Conns : ReadError(c)
    \/ \E c \in Conns : ReadPanic(c)
    \/ \E c \in Conns : RecvUndecodable(c)
    \/ \E c \in Conns, type \in {"leave", "other"} : RecvIgnored(c, type)
    \/ \E c \in Conns : Teardown(c)
    \/ \E c \in Conns, p \in JoinPayloads : HandleJoin(c, p)
    \/ \E c \in Conns, p \in MovePayloads : HandleMove(c, p)
    \/ \E c \in Conns : MoveApply(c)
    \/ \E c \in Conns : MoveSend(c)
    \/ \E c \in Conns : Broadcast(c)

SpecNoFail == Init /\ [][NextNoFail]_vars

\* The process started on a snapshot that holds a session: LoadGames (lines
\* 622-651) has put it in the store before the first request is served.  Its
\* id is not among the ids POST /game will draw.
LoadedId == MaxGames + 1

LoadedStore ==
    [g \in {LoadedId} |->
        [WhitePlayerId |-> "B", BlackPlayerId |-> "A",
         Game |-> ApplyMove(NewGame, "wq", TRUE)]]

InitLoaded ==
    /\ variant \in Variants
    /\ phase = "up"
    /\ disk = [kind |-> "full", data |-> StoredOf(LoadedStore)]
    /\ games \in LoadGames(disk, <<>>)
    /\ connectedClients = <<>>
    /\ pc = [w \in Workers |-> IF w = HttpWorker THEN "idle" ELSE "free"]
    /\ id = [c \in Conns |-> ""]
    /\ conn = [c \in Conns |-> "none"]
    /\ cur = [w \in Workers |-> NoLocals]
    /\ ev = Ev("LoadGames", HttpWorker, 0, "ok", <<>>)

SpecLoaded == InitLoaded /\ [][Next]_vars

\* ================================================================== claims

\* C1: a move changes a session's position only when the submitting
\* connection's identity is the participant assigned to the side to move; a
\* legal move of the off-turn participant or of an outsider is rejected.
C1_OnlyThePlayerToMoveMoves ==
    ev.op = "MoveApplied" => ev.auth = "onturn"

\* C2: a submitted move that is not in the legal-move set of the session's
\* current position is rejected with an error, the store and the file stay
\* as they are, and the worker is back in its read loop without having
\* entered SaveGames.
C2_IllegalMoveRejected ==
    [][(ev'.op \in {"MoveApplied", "MoveFound", "MoveRejected"} /\ ~ev'.legal)
          => /\ ev'.op = "MoveRejected"
             /\ games' = games
             /\ disk' = disk
             /\ pc'[ev'.by] = "read"]_vars

C2_Witness ==
    /\ ev.op = "MoveRejected"
    /\ ev.res = "Invalid move"
    /\ ~ev.legal
    /\ \E g \in DOMAIN games : Len(games[g].Game.moves) > 0

\* C3: once a session's position has an outcome, no move is applied to it.
C3_NoMoveAfterOutcome ==
    ev.op = "MoveApplied" => ev.pre = NoOutcome

\* C4: in a run in which every SaveGames succeeded, once the handlers have
\* finished, LoadGames on the file gives the store as it is in memory: the
\* same session ids, and for each the same moves, outcome and white and
\* black participants.  (Checked under SpecNoFail.)
C4_RestartReproducesStore ==
    (phase = "up" /\ DOMAIN games # {} /\ \A w \in Workers : ~Busy(w))
        => /\ disk.kind = "full"
           /\ LoadGames(disk, <<>>) = {games}

\* The same law where no two handlers overlap (SpecSeq): each successful
\* SaveGames leaves a file that LoadGames turns back into the store.
SnapshotRoundTripInSequence ==
    [][(ev'.op = "SaveGames" /\ ev'.res = "ok")
          => /\ disk'.kind = "full"
             /\ LoadGames(disk', <<>>) = {games'}]_vars

\* C5: whenever no handler is in the middle of an operation, the file is the
\* projection of the store in memory (no file yet: an empty store).
C5_FileIsTheStoreAtRest ==
    (phase = "up" /\ \A w \in Workers : ~Busy(w))
        => \/ disk.kind = "full" /\ disk.data = StoredOf(games)
           \/ disk.kind = "missing" /\ DOMAIN games = {}

\* C6: HandleMove writes envelopes about a move only after SaveGames has
\* returned nil for it, and when SaveGames returns an error the worker is
\* back in its read loop with nothing written.
C6_CommitBeforeNotify ==
    [][/\ \A c \in Conns :
            (ev'.by = c /\ ev'.op \in {"MoveSend", "Broadcast"})
                => pc[c] \in {"mv_send", "bc_loop"} /\ cur[c].committed
       /\ (ev'.op = "SaveGames" /\ ev'.res = "error" /\ ev'.by \in Conns)
            => ev'.out = <<>> /\ pc'[ev'.by] = "read"]_vars

C6_Witness ==
    /\ ev.op = "Broadcast"
    /\ Len(ev.out) > 0
    /\ ev.out[1].msg.type = "move"

\* C7: a crash during SaveGames leaves the file whole: the previous snapshot
\* or the new one.
C7_CrashLeavesAWholeFile ==
    phase = "down" => disk.kind \in {"missing", "full"}

\* C8: no worker changes connectedClients while another worker is in the
\* middle of its loop over connectedClients.
C8_RegistryLoopUndisturbed ==
    [][((\E c \in Conns : pc[c] = "bc_loop") /\ phase' = "up")
          => connectedClients' = connectedClients]_vars

\* C9: for every session, at most one worker at a time is between reading
\* the session's legal moves and applying a move to it.
C9_OneApplierPerSession ==
    \A g \in GameIds :
        Cardinality({c \in Conns : pc[c] = "mv_apply" /\ cur[c].game = g}) <= 1

\* C10: after an envelope that fails to decode (the envelope itself or its
\* payload) the connection is still in its read loop and still registered.
C10_UndecodableKeepsConnection ==
    (\/ ev.op = "RecvUndecodable"
     \/ ev.op \in {"HandleJoin", "MoveRejected"} /\ ev.res = "decode error")
        => /\ pc[ev.by] = "read"
           /\ \E i \in 1..Len(connectedClients) : connectedClients[i].Conn = ev.by

\* C11: when a worker has run its teardown after a failed read, its
\* transport is closed and the registry holds no entry of that connection;
\* and no envelope is written to a closed connection.
C11_TornDownConnectionIsGone ==
    /\ (ev.op = "Teardown" /\ ev.res = "read failed")
          => /\ conn[ev.by] = "closed"
             /\ \A i \in 1..Len(connectedClients) : connectedClients[i].Conn # ev.by
    /\ \A c \in Conns :
          conn[c] = "closed" => \A i \in 1..Len(ev.out) : ev.out[i].to # c

\* C12: when a worker has handled a leave envelope it is out of its read loop
\* and the registry holds no entry of its connection.
C12_LeaveClosesConnection ==
    (ev.op = "RecvIgnored" /\ ev.res = "leave")
        => /\ pc[ev.by] \in {"teardown", "done"}
           /\ \A i \in 1..Len(connectedClients) : connectedClients[i].Conn # ev.by

\* C13: the registry holds at most one entry per identity.
C13_OneEntryPerIdentity ==
    \A i, j \in 1..Len(connectedClients) :
        connectedClients[i].ID = connectedClients[j].ID => i = j

\* C14: no envelope is written to a connection whose hello has not been
\* written yet.
C14_HelloIsFirst ==
    \A i \in 1..Len(ev.out) : pc[ev.out[i].to] # "hello"

\* The connections an envelope of a session could be written to: registered,
\* transport open, hello written.
Reachable(i) ==
    /\ Writable(connectedClients[i].Conn)
    /\ pc[connectedClients[i].Conn] # "hello"

\* C15: broadcast variant: when an accepted move has left the session with an
\* outcome, the mover is sent the new position and every connection in the
\* registry is sent the outcome envelope of that session.
C15_OutcomeGoesToEveryone ==
    (ev.op = "MoveSend" /\ ev.res = "outcome")
        => /\ \E k \in 1..Len(ev.out) :
                 ev.out[k].to = ev.by /\ ev.out[k].msg.type = "move"
           /\ \A i \in 1..Len(connectedClients) :
                 Reachable(i)
                    => \E k \in 1..Len(ev.out) :
                          /\ ev.out[k].to = connectedClients[i].Conn
                          /\ ev.out[k].msg.type = "outcome"
                          /\ ev.out[k].msg.gameId = ev.game

\* C16: broadcast variant: the possibleMoves envelope a connection is sent
\* after a move without outcome, played by the participant whose turn it
\* was, is the one computed for that connection's identity at the position
\* sent with it: the legal moves for the participant now to move, an empty
\* list for everyone else.
C16_PossibleMovesPerRecipient ==
    (ev.op = "Broadcast" /\ variant = "broadcast" /\ Len(ev.out) > 0)
        => LET sent == [games[ev.game] EXCEPT
                          !.Game = [moves |-> ev.out[1].msg.body,
                                    outcome |-> NoOutcome]]
           IN  AuthOf(sent, id[ev.by]) = "offturn"
                  => \A k \in 1..Len(ev.out) :
                        ev.out[k].msg.type = "possibleMoves"
                           => ev.out[k].msg =
                                 GeneratePossibleMovesMessage(sent, ev.game,
                                                              id[ev.out[k].to])

\* C17: GeneratePossibleMovesMessage gives an empty list to every identity
\* that is not the participant to move, and the whole, non-empty legal-move
\* set to the participant to move while the position has no outcome.
PossibleIds == {"A", "B", "ai", ""}

C17_PossibleMovesView ==
    \A g \in DOMAIN games : \A clientId \in PossibleIds :
        LET game == games[g]
            m == GeneratePossibleMovesMessage(game, g, clientId)
        IN  /\ m.type = "possibleMoves" /\ m.gameId = g
            /\ AuthOf(game, clientId) # "onturn" => m.body = {}
            /\ (AuthOf(game, clientId) = "onturn" /\ Outcome(game.Game) = NoOutcome)
                  => m.body = ValidMoves(game.Game) /\ m.body # {}

C17_Witness ==
    /\ ev.op = "HandleJoin"
    /\ ev.res = "ok"
    /\ Len(games[ev.game].Game.moves) > 0
    /\ \E k \in 1..Len(ev.out) :
          ev.out[k].msg.type = "possibleMoves" /\ ev.out[k].msg.body # {}

\* C18: opponent variant: a move envelope is written only for a move of a
\* participant, only to connections whose identity is the session's other
\* participant, and to nobody when that participant is "" or "ai".
C18_OnlyTheOpponentIsTold ==
    (ev.op = "Broadcast" /\ variant = "opponent" /\ Len(ev.out) > 0)
        => LET game == games[ev.game]
               mover == id[ev.by]
               other == IF mover = game.WhitePlayerId THEN game.BlackPlayerId
                        ELSE game.WhitePlayerId
           IN  /\ mover \in {game.WhitePlayerId, game.BlackPlayerId}
               /\ other \notin {"", "ai"}
               /\ \A k \in 1..Len(ev.out) : id[ev.out[k].to] = other

\* C19: a successful join writes to the requester, in this order, the
\* against, possibleMoves, outcome and capturedPieces envelopes of the
\* session's position, and nothing to anyone else.
C19_JoinAnswersInOrder ==
    (ev.op = "HandleJoin" /\ ev.res = "ok")
        => LET game == games[ev.game]
               c == ev.by
           IN  ev.out = <<To(c, GenerateAgainstMessage(game, id[c]).msg),
                          To(c, GeneratePossibleMovesMessage(game, ev.game, id[c])),
                          To(c, GenerateOutcomeMessage(game, ev.game)),
                          To(c, GenerateCapturedPiecesMessage(game, ev.game))>>

\* C20: after startup the process serves with an empty store when the file
\* is missing, and does not serve when the file is malformed.
C20_MalformedSnapshotStopsStartup ==
    ev.op = "LoadGames"
        => /\ disk.kind = "missing" => (phase = "up" /\ DOMAIN games = {})
           /\ (disk.kind # "missing" /\ LoadGamesErr(disk)) => phase # "up"

\* C21: a creation with no preferred color can make either player White
\* (the draw has an outcome for each assignment), and no step changes the
\* white or black participant of a session that stays in the store.
C21_EitherPlayerCanBeWhite ==
    [][/\ (ev'.op = "CreateGame" /\ ev'.res = "")
            => \A req \in CreateRequests :
                  req.preferredColor = ""
                     => /\ \E r \in RandomNumbers :
                              NewSession(req, r).WhitePlayerId = req.player1
                        /\ \E r \in RandomNumbers :
                              NewSession(req, r).WhitePlayerId = req.player2
       /\ \A g \in DOMAIN games \cap DOMAIN games' :
             /\ games'[g].WhitePlayerId = games[g].WhitePlayerId
             /\ games'[g].BlackPlayerId = games[g].BlackPlayerId]_vars

\* C23: a teardown removes from the registry the entries of the worker's own
\* connection and no other: every other connection keeps its entry, also one
\* registered under the same identity.
C23_TeardownRemovesOwnEntry ==
    [][ev'.op = "Teardown"
          => LET IsOther(client) == client.Conn # ev'.by
             IN  connectedClients' = SelectSeq(connectedClients, IsOther)]_vars

\* C22: a join, a leave, an envelope of unknown type, an undecodable
\* envelope and a rejected move leave the store and the file as they are; an
\* accepted move leaves every session but the one it names as it is, and the
\* named session's participants too.  (Checked under SpecLoaded, where the
\* store holds a second session.)
C22_OnlyTheNamedSessionChanges ==
    [][/\ ev'.op \in {"HandleJoin", "RecvIgnored", "RecvUndecodable",
                      "MoveRejected", "MoveFound"}
            => games' = games /\ disk' = disk
       /\ ev'.op = "MoveApplied"
            => /\ DOMAIN games' = DOMAIN games
               /\ disk' = disk
               /\ \A g \in DOMAIN games \ {ev'.game} : games'[g] = games[g]
               /\ games'[ev'.game].WhitePlayerId = games[ev'.game].WhitePlayerId
               /\ games'[ev'.game].BlackPlayerId = games[ev'.game].BlackPlayerId
               /\ games'[ev'.game].Game # games[ev'.game].Game]_vars

C22_Witness ==
    /\ ev.op = "MoveApplied"
    /\ ev.res = "bq"
    /\ DOMAIN games = {ev.game, LoadedId}
    /\ ev.game # LoadedId
    /\ games[LoadedId] = LoadedStore[LoadedId]

====
